---- MODULE Spec2Model ----
(***************************************************************************)
(* TimeTrackPro: the task lifecycle (start / stop / auto-close) of the     *)
(* six program variants of the repository, one program per behaviour:      *)
(*   "main"        src/main.py               desktop, CSV, Timer thread    *)
(*   "enhanced"    src/main_enhanced.py      desktop, CSV + database       *)
(*   "simple"      src/simple_desktop.py     desktop, CSV, no countdown    *)
(*   "standalone"  src/enhanced_standalone.py desktop, CSV, marshalled     *)
(*   "web"         src/web_standalone.py     Flask, CSV                    *)
(*   "webapp"      src/web_app.py            Flask, database + CSV fallback*)
(*                                                                         *)
(* Time is the wall clock in seconds.  Text is a sequence of characters,   *)
(* a character is a number, Space is the blank.  Python's None is NoTask   *)
(* (the empty text), NoTime, NoTimer or NoId according to the type.        *)
(***************************************************************************)
EXTENDS Integers, Sequences, FiniteSets, TLC

VARIABLES
    variant,            \* which program is running
    now,                \* datetime.datetime.now(), in seconds
    current_task,       \* self.current_task (description) / web: current_task dict's description
    task_start_time,    \* self.task_start_time / web: current_task['start_time']
    auto_close_timer,   \* self.auto_close_timer: index into timers, or NoTimer
    is_running,         \* self.is_running
    timers,             \* the threading.Timer objects created so far, with their threads
    gui,                \* the GUI (Tk mainloop) thread: its position and locals
    csv,                \* the rows appended to the task log (header excluded)
    failures,           \* number of I/O and database errors injected so far
    tasks,              \* the rows of the database's tasks table
    current_task_id,    \* self.current_task_id
    db,                 \* self.db is a DatabaseManager (not None)
    restarts,           \* number of times the program was launched again
    notified,           \* number of "Auto-Close" notifications posted
    started,            \* number of start operations that passed validation
    requests,           \* the Flask request threads: position, locals, last response
    after_queue,        \* number of _auto_close_task_safe callbacks queued by root.after
    categories,         \* the category store: the rows of categories.csv / of the categories table
    category_var,       \* self.category_var: the name selected in the category box ('' is NoTask)
    start_category      \* the name that was selected when the current task was started

vars == <<variant, categories, category_var, start_category, now, current_task, task_start_time, auto_close_timer,
          is_running, timers, gui, csv, notified, started, failures,
          tasks, current_task_id, db, restarts, requests, after_queue>>

dbvars == <<tasks, current_task_id, db, restarts>>

othervars == <<requests, after_queue>>

selector == <<category_var, start_category>>

-----------------------------------------------------------------------------
(* Bounds of the model *)

Latency == 1
MaxStarts == 3
MaxStartsDb == 2
MaxFailures == 1
MaxRestarts == 1
MaxQueue == 2
MaxWorkers == 2
MaxCategories == 3

(* Program constants *)

AUTO_CLOSE_SECONDS == 7200

NoTask == << >>
NoTime == -1
NoTimer == 0
NoId == 0
Space == 0

\* the instants at which the clock is read.  Where only the countdown tells
\* instants apart (src/main.py) they are the start, the end of a countdown
\* armed at the start and a moment later; elsewhere an elapsed time below
\* the countdown matters (the resume at startup, the display check), one
\* that is no whole number of hundredths of a minute
Instants ==
    IF variant = "main"
    THEN { 0, AUTO_CLOSE_SECONDS, AUTO_CLOSE_SECONDS + Latency }
    ELSE { 0, AUTO_CLOSE_SECONDS \div 2 - Latency, AUTO_CLOSE_SECONDS }

\* what a clock reading made now or later may return: time passes between
\* any two steps, and only a reading of the clock observes it
Later == { t \in Instants : t >= now }

-----------------------------------------------------------------------------
(* Pure functions *)

\* a fault: the text is used as typed
Unstripped(s) == s

\* a fault: every description counts as a task
AlwaysTruthy(desc) == TRUE

\* a fault: the clock is read again for the start time
ClockInstant(current_time, clock) == clock

\* str.strip(): drop the blanks at both ends
RECURSIVE LStrip(_)
LStrip(s) == IF s # << >> /\ Head(s) = Space THEN LStrip(Tail(s)) ELSE s

RECURSIVE RStrip(_)
RStrip(s) ==
    IF s # << >> /\ s[Len(s)] = Space THEN RStrip(SubSeq(s, 1, Len(s) - 1)) ELSE s

strip(s) == RStrip(LStrip(s))

\* round(duration_seconds / 60, 2), in hundredths of a minute
\* (whole seconds never fall on a tie: the fraction is 0, 1/3 or 2/3)
duration_minutes(start, end) == ((end - start) * 10 + 3) \div 6

\* src/models.py, line 57: duration_minutes DECIMAL(10,2).  The column
\* rounds the unrounded (end - start).total_seconds() / 60 that
\* src/web_app.py passes to db.end_task to two decimals
numeric_10_2(start, end) == ((end - start) * 100 + 30) \div 60

\* Python truth of a description (None and '' are false)
Truthy(desc) == desc # NoTask

\* what the user may have typed for the k-th task
Entries(k) == { << >>, <<Space>>, <<k>>, <<Space, k, Space>> }

-----------------------------------------------------------------------------
(* Threads.  Thread 0 is the GUI thread; thread k >= 1 is the thread of  *)
(* the k-th threading.Timer: it waits for the deadline ("wait"), then runs *)
(* the callback, and is "done" when the callback returned or the Timer was *)
(* cancelled while it waited.                                              *)

IdleGui(result) ==
    [pc |-> "idle", op |-> "none", desc |-> NoTask, current_time |-> NoTime,
     end_time |-> NoTime, start |-> NoTime, ret |-> "none", result |-> result]

\* threading.Timer(interval, function).start(): it elapses at deadline
NewTimer(deadline) ==
    [pc |-> "wait", deadline |-> deadline, end_time |-> NoTime, start |-> NoTime,
     ret |-> "none"]

\* a Timer whose thread ended
DoneTimer ==
    [pc |-> "done", deadline |-> NoTime, end_time |-> NoTime, start |-> NoTime,
     ret |-> "none"]

Threads == 0 .. Len(timers)

Loc(t) == IF t = 0 THEN gui ELSE timers[t]

\* thread t moves to r, the Timer objects being tm
Step(t, r, tm) ==
    IF t = 0 THEN gui' = r /\ timers' = tm
             ELSE gui' = gui /\ timers' = [tm EXCEPT ![t] = r]

\* return from end_task to the caller's next line
Returned(t) ==
    IF t = 0 /\ gui.ret = "p187" THEN IdleGui("stopped")
    ELSE [Loc(t) EXCEPT !.pc = Loc(t).ret, !.end_time = NoTime,
                        !.start = NoTime, !.ret = "none"]

\* who appends the row: the operation of the GUI thread, or the countdown
By(t) == IF t = 0 THEN gui.op ELSE "auto"

\* threading.Timer.cancel(): sets the finished event, which ends a waiting
\* Timer thread; it has no effect once the Timer has fired
Cancel(k) ==
    IF k # NoTimer /\ timers[k].pc = "wait" THEN [timers EXCEPT ![k] = DoneTimer]
    ELSE timers

\* a countdown that is still to fire: not cancelled and not yet run
Outstanding(k) == timers[k].pc = "wait"

\* a row of the task log; by is who appended it, and next is the task whose
\* start closed this one (NoTask when the close was no implicit close)
Row(desc, start, end, by) ==
    [desc |-> desc, start |-> start, end |-> end,
     minutes |-> duration_minutes(start, end), by |-> by, next |-> NoTask,
     category |-> NoTask, start_category |-> NoTask]

Before(row, next) == [row EXCEPT !.next = next]

\* the 'Category' column of a row, and the name that was selected when the
\* row's task was started
Categorised(row, category, at_start) ==
    [row EXCEPT !.category = category, !.start_category = at_start]

\* the task that thread t is starting
Starting(t) == IF t = 0 /\ gui.op = "start" THEN gui.desc ELSE NoTask

\* the start time given to the new task: the instant read at line 158
StartInstant(current_time, clock) == current_time

\* the same in src/main_enhanced.py: the instant read at line 604
EnhStartInstant(current_time, clock) == current_time

\* resume_task, line 931: reset_auto_close_timer() arms a full interval from now
ResumeDeadline(start_time, clock) == clock + AUTO_CLOSE_SECONDS

-----------------------------------------------------------------------------
(* src/main.py *)
(* The GUI thread and the Timer threads interleave between the steps       *)
(* below.  A step groups the lines that touch shared state together with   *)
(* the local computation around them; a test and the use that follows it   *)
(* on the next line (if x: x.cancel()) form one step.                      *)

IsMain == variant = "main"

\* start_new_task, lines 152-158: validation and the clock reading
Main_start_new_task(text) ==
    /\ IsMain /\ gui.pc = "idle" /\ started < MaxStarts
    /\ LET task_description == strip(text) IN
       IF ~Truthy(task_description)
       THEN /\ gui' = IdleGui("warning")
            /\ UNCHANGED <<started, now>>
       ELSE /\ now' \in Later
            /\ gui' = [IdleGui("none") EXCEPT !.pc = "s161", !.op = "start",
                          !.desc = task_description, !.current_time = now']
            /\ started' = started + 1
    /\ UNCHANGED <<othervars, variant, categories, selector, current_task, task_start_time, auto_close_timer,
                   is_running, timers, csv, notified, failures, dbvars>>

\* a start that leaves the previous task open and unrecorded
StartWithoutClose ==
    /\ variant = "main" /\ gui.pc = "s161"
    /\ gui' = [gui EXCEPT !.pc = "s165"]
    /\ UNCHANGED <<othervars, variant, categories, selector, now, current_task, task_start_time, auto_close_timer,
                   is_running, timers, csv, notified, started, failures, dbvars>>

\* start_new_task, lines 161-162: end the previous task with the same instant
Main_start_161 ==
    /\ IsMain /\ gui.pc = "s161"
    /\ IF Truthy(current_task) /\ task_start_time # NoTime
       THEN gui' = [gui EXCEPT !.pc = "e192", !.end_time = gui.current_time, !.ret = "s165"]
       ELSE gui' = [gui EXCEPT !.pc = "s165"]
    /\ UNCHANGED <<othervars, variant, categories, selector, now, current_task, task_start_time, auto_close_timer,
                   is_running, timers, csv, notified, started, failures, dbvars>>

\* start_new_task, lines 165-175: the new task, then reset_auto_close_timer()
Main_start_165 ==
    /\ IsMain /\ gui.pc = "s165"
    /\ current_task' = gui.desc
    /\ task_start_time' = StartInstant(gui.current_time, now)
    /\ gui' = [gui EXCEPT !.pc = "r228"]
    /\ UNCHANGED <<othervars, variant, categories, selector, now, auto_close_timer,
                   is_running, timers, csv, notified, started, failures, dbvars>>

\* stop_current_task, lines 182-186
Main_stop_current_task ==
    /\ IsMain /\ gui.pc = "idle"
    /\ IF ~Truthy(current_task)
       THEN gui' = IdleGui("info") /\ UNCHANGED now
       ELSE /\ now' \in Later
            /\ gui' = [IdleGui("none") EXCEPT !.pc = "e192", !.op = "stop",
                       !.end_time = now', !.ret = "p187"]
    /\ UNCHANGED <<othervars, variant, categories, selector, current_task, task_start_time, auto_close_timer,
                   is_running, timers, csv, notified, started, failures, dbvars>>

\* end_task, lines 192-201: the guard, then the duration and the formatted
\* times computed from self.task_start_time
Main_end_task_192(t) ==
    /\ IsMain /\ Loc(t).pc = "e192"
    /\ IF ~Truthy(current_task) \/ task_start_time = NoTime
       THEN Step(t, Returned(t), timers)
       ELSE Step(t, [Loc(t) EXCEPT !.pc = "e205", !.start = task_start_time], timers)
    /\ UNCHANGED <<othervars, variant, categories, selector, now, current_task, task_start_time, auto_close_timer,
                   is_running, csv, notified, started, failures, dbvars>>

\* end_task, lines 204-215: append the row; an I/O error is shown and swallowed
Main_end_task_205(t) ==
    /\ IsMain /\ Loc(t).pc = "e205"
    /\ \/ /\ csv' = Append(csv, Before(Row(current_task, Loc(t).start, Loc(t).end_time, By(t)),
                                        Starting(t)))
          /\ UNCHANGED failures
       \/ /\ failures < MaxFailures
          /\ failures' = failures + 1
          /\ UNCHANGED csv
    /\ Step(t, [Loc(t) EXCEPT !.pc = "e218"], timers)
    /\ UNCHANGED <<othervars, variant, categories, selector, now, current_task, task_start_time, auto_close_timer,
                   is_running, notified, started, dbvars>>

\* end_task, lines 218-219
Main_end_task_218(t) ==
    /\ IsMain /\ Loc(t).pc = "e218"
    /\ current_task' = NoTask
    /\ task_start_time' = NoTime
    /\ Step(t, [Loc(t) EXCEPT !.pc = "e222"], timers)
    /\ UNCHANGED <<othervars, variant, categories, selector, now, auto_close_timer,
                   is_running, csv, notified, started, failures, dbvars>>

\* end_task, lines 222-223
Main_end_task_222(t) ==
    /\ IsMain /\ Loc(t).pc = "e222"
    /\ IF auto_close_timer # NoTimer
       THEN Step(t, [Loc(t) EXCEPT !.pc = "e224"], Cancel(auto_close_timer))
       ELSE Step(t, Returned(t), timers)
    /\ UNCHANGED <<othervars, variant, categories, selector, now, current_task, task_start_time, auto_close_timer,
                   is_running, csv, notified, started, failures, dbvars>>

\* end_task, line 224
Main_end_task_224(t) ==
    /\ IsMain /\ Loc(t).pc = "e224"
    /\ auto_close_timer' = NoTimer
    /\ Step(t, Returned(t), timers)
    /\ UNCHANGED <<othervars, variant, categories, selector, now, current_task, task_start_time,
                   is_running, csv, notified, started, failures, dbvars>>

\* reset_auto_close_timer, lines 228-229
Main_reset_228 ==
    /\ IsMain /\ gui.pc = "r228"
    /\ timers' = Cancel(auto_close_timer)
    /\ gui' = [gui EXCEPT !.pc = "r231"]
    /\ UNCHANGED <<othervars, variant, categories, selector, now, current_task, task_start_time, auto_close_timer,
                   is_running, csv, notified, started, failures, dbvars>>

\* reset_auto_close_timer, lines 231-233: a new Timer, started
Main_reset_231 ==
    /\ IsMain /\ gui.pc = "r231"
    /\ IF Truthy(current_task)
       THEN /\ now' \in Later
            /\ timers' = Append(timers, NewTimer(now' + AUTO_CLOSE_SECONDS))
            /\ auto_close_timer' = Len(timers) + 1
       ELSE UNCHANGED <<timers, auto_close_timer, now>>
    /\ gui' = IdleGui("started")
    /\ UNCHANGED <<othervars, variant, categories, selector, current_task, task_start_time,
                   is_running, csv, notified, started, failures, dbvars>>

\* threading.Timer.run: the interval elapsed and the Timer was not cancelled
Main_timer_fires(k) ==
    /\ IsMain /\ Outstanding(k)
    /\ now' \in Later /\ now' >= timers[k].deadline
    /\ timers' = [timers EXCEPT ![k].pc = "a237", ![k].deadline = NoTime]
    /\ UNCHANGED <<othervars, variant, categories, selector, current_task, task_start_time, auto_close_timer,
                   is_running, gui, csv, notified, started, failures, dbvars>>

\* auto_close_task, lines 237-238, on the Timer's thread
Main_auto_close_task(k) ==
    /\ IsMain /\ timers[k].pc = "a237"
    /\ IF Truthy(current_task)
       THEN /\ now' \in Later
            /\ timers' = [timers EXCEPT ![k].pc = "e192", ![k].end_time = now', ![k].ret = "a239"]
       ELSE /\ UNCHANGED now
            /\ timers' = [timers EXCEPT ![k] = DoneTimer]
    /\ UNCHANGED <<othervars, variant, categories, selector, current_task, task_start_time, auto_close_timer,
                   is_running, gui, csv, notified, started, failures, dbvars>>

\* auto_close_task, lines 239-241: the notification is queued for the GUI
Main_auto_close_239(k) ==
    /\ IsMain /\ timers[k].pc = "a239"
    /\ timers' = [timers EXCEPT ![k] = DoneTimer]
    /\ notified' = notified + 1
    /\ UNCHANGED <<othervars, variant, categories, selector, now, current_task, task_start_time, auto_close_timer,
                   is_running, gui, csv, started, failures, dbvars>>

\* on_closing, lines 370-371
Main_on_closing ==
    /\ IsMain /\ gui.pc = "idle"
    /\ IF Truthy(current_task)
       THEN /\ now' \in Later
            /\ gui' = [IdleGui("none") EXCEPT !.pc = "e192", !.op = "closing",
                       !.end_time = now', !.ret = "c374"]
       ELSE /\ UNCHANGED now
            /\ gui' = [IdleGui("none") EXCEPT !.pc = "c374", !.op = "closing"]
    /\ UNCHANGED <<othervars, variant, categories, selector, current_task, task_start_time, auto_close_timer,
                   is_running, timers, csv, notified, started, failures, dbvars>>

\* on_closing, lines 374-378: the window is destroyed, the mainloop ends
Main_on_closing_374 ==
    /\ IsMain /\ gui.pc = "c374"
    /\ is_running' = FALSE
    /\ timers' = Cancel(auto_close_timer)
    /\ gui' = [IdleGui("closed") EXCEPT !.pc = "closed"]
    /\ UNCHANGED <<othervars, variant, categories, selector, now, current_task, task_start_time, auto_close_timer, csv, notified, started, failures, dbvars>>

NextMain ==
    \/ \E text \in Entries(started + 1) : Main_start_new_task(text)
    \/ Main_start_161 \/ Main_start_165
    \/ Main_stop_current_task
    \/ \E t \in Threads :
        \/ Main_end_task_192(t) \/ Main_end_task_205(t) \/ Main_end_task_218(t)
        \/ Main_end_task_222(t) \/ Main_end_task_224(t)
    \/ Main_reset_228 \/ Main_reset_231
    \/ \E k \in 1 .. Len(timers) :
        \/ Main_timer_fires(k) \/ Main_auto_close_task(k) \/ Main_auto_close_239(k)
    \/ Main_on_closing \/ Main_on_closing_374

-----------------------------------------------------------------------------
(* src/models.py: the tasks table.  A row's id is its index (SERIAL); a    *)
(* NULL end_time is NoTime.                                                *)

\* add_task, lines 168-174: INSERT ... RETURNING id
add_task(task_description, start_time) ==
    Append(tasks, [desc |-> task_description, start |-> start_time,
                   end_time |-> NoTime, minutes |-> NoTime])

\* end_task, lines 185-189: UPDATE tasks SET end_time, duration_minutes WHERE id
end_task(task_id, end_time, minutes) ==
    [tasks EXCEPT ![task_id].end_time = end_time, ![task_id].minutes = minutes]

\* the rows WHERE end_time IS NULL
OpenRows == { i \in 1 .. Len(tasks) : tasks[i].end_time = NoTime }

\* get_last_incomplete_task, lines 249-257: ORDER BY start_time DESC LIMIT 1;
\* the set of ids the query may return (empty: None)
get_last_incomplete_task ==
    { i \in OpenRows : \A j \in OpenRows : tasks[j].start <= tasks[i].start }

-----------------------------------------------------------------------------
(* src/main_enhanced.py, in steps as for src/main.py *)

IsEnh == variant = "enhanced"

\* start_new_task, lines 598-604
Enh_start_new_task(text) ==
    /\ IsEnh /\ gui.pc = "idle" /\ started < MaxStartsDb
    /\ LET task_description == strip(text) IN
       IF ~Truthy(task_description)
       THEN /\ gui' = IdleGui("warning")
            /\ UNCHANGED <<started, now>>
       ELSE /\ now' \in Later
            /\ gui' = [IdleGui("none") EXCEPT !.pc = "s607", !.op = "start",
                          !.desc = task_description, !.current_time = now']
            /\ started' = started + 1
    /\ UNCHANGED <<othervars, variant, categories, selector, current_task, task_start_time, auto_close_timer,
                   is_running, timers, csv, notified, failures, dbvars>>

\* start_new_task, lines 607-608
Enh_start_607 ==
    /\ IsEnh /\ gui.pc = "s607"
    /\ IF Truthy(current_task) /\ task_start_time # NoTime
       THEN gui' = [gui EXCEPT !.pc = "e657", !.end_time = gui.current_time, !.ret = "s624"]
       ELSE gui' = [gui EXCEPT !.pc = "s624"]
    /\ UNCHANGED <<othervars, variant, categories, selector, now, current_task, task_start_time, auto_close_timer,
                   is_running, timers, csv, notified, started, failures, dbvars>>

\* start_new_task, lines 611-626
Enh_start_624 ==
    /\ IsEnh /\ gui.pc = "s624"
    /\ current_task' = gui.desc
    /\ task_start_time' = EnhStartInstant(gui.current_time, now)
    /\ gui' = [gui EXCEPT !.pc = "s629"]
    /\ UNCHANGED <<othervars, variant, categories, selector, now, auto_close_timer,
                   is_running, timers, csv, notified, started, failures, dbvars>>

\* start_new_task, lines 629-634: the INSERT; an exception is printed and swallowed
Enh_start_629 ==
    /\ IsEnh /\ gui.pc = "s629"
    /\ IF db
       THEN \/ /\ tasks' = add_task(gui.desc, gui.current_time)
               /\ current_task_id' = Len(tasks) + 1
               /\ UNCHANGED failures
            \/ /\ failures < MaxFailures
               /\ failures' = failures + 1
               /\ current_task_id' = NoId
               /\ UNCHANGED tasks
       ELSE UNCHANGED <<tasks, current_task_id, failures>>
    /\ gui' = [gui EXCEPT !.pc = "r715"]
    /\ UNCHANGED <<othervars, variant, categories, selector, now, current_task, task_start_time, auto_close_timer,
                   is_running, timers, csv, notified, started, db, restarts>>

\* stop_current_task, lines 647-651
Enh_stop_current_task ==
    /\ IsEnh /\ gui.pc = "idle"
    /\ IF ~Truthy(current_task)
       THEN gui' = IdleGui("info") /\ UNCHANGED now
       ELSE /\ now' \in Later
            /\ gui' = [IdleGui("none") EXCEPT !.pc = "e657", !.op = "stop",
                       !.end_time = now', !.ret = "p187"]
    /\ UNCHANGED <<othervars, variant, categories, selector, current_task, task_start_time, auto_close_timer,
                   is_running, timers, csv, notified, started, failures, dbvars>>

\* end_task, lines 657-678
Enh_end_task_657(t) ==
    /\ IsEnh /\ Loc(t).pc = "e657"
    /\ IF ~Truthy(current_task) \/ task_start_time = NoTime
       THEN Step(t, Returned(t), timers)
       ELSE Step(t, [Loc(t) EXCEPT !.pc = "e681", !.start = task_start_time], timers)
    /\ UNCHANGED <<othervars, variant, categories, selector, now, current_task, task_start_time, auto_close_timer,
                   is_running, csv, notified, started, failures, dbvars>>

\* end_task, lines 680-693: append the row; an I/O error is shown and swallowed
Enh_end_task_681(t) ==
    /\ IsEnh /\ Loc(t).pc = "e681"
    /\ \/ /\ csv' = Append(csv, Before(Row(current_task, Loc(t).start, Loc(t).end_time, By(t)),
                                        Starting(t)))
          /\ UNCHANGED failures
       \/ /\ failures < MaxFailures
          /\ failures' = failures + 1
          /\ UNCHANGED csv
    /\ Step(t, [Loc(t) EXCEPT !.pc = "e696"], timers)
    /\ UNCHANGED <<othervars, variant, categories, selector, now, current_task, task_start_time, auto_close_timer,
                   is_running, notified, started, dbvars>>

\* end_task, lines 695-700: the UPDATE; an exception is printed and swallowed
Enh_end_task_696(t) ==
    /\ IsEnh /\ Loc(t).pc = "e696"
    /\ IF db /\ current_task_id # NoId
       THEN \/ /\ tasks' = end_task(current_task_id, Loc(t).end_time,
                                    duration_minutes(Loc(t).start, Loc(t).end_time))
               /\ UNCHANGED failures
            \/ /\ failures < MaxFailures
               /\ failures' = failures + 1
               /\ UNCHANGED tasks
       ELSE UNCHANGED <<tasks, failures>>
    /\ Step(t, [Loc(t) EXCEPT !.pc = "e703"], timers)
    /\ UNCHANGED <<othervars, variant, categories, selector, now, current_task, task_start_time, auto_close_timer,
                   is_running, csv, notified, started, current_task_id, db, restarts>>

\* end_task, lines 703-706
Enh_end_task_703(t) ==
    /\ IsEnh /\ Loc(t).pc = "e703"
    /\ current_task' = NoTask
    /\ current_task_id' = NoId
    /\ task_start_time' = NoTime
    /\ Step(t, [Loc(t) EXCEPT !.pc = "e709"], timers)
    /\ UNCHANGED <<othervars, variant, categories, selector, now, auto_close_timer,
                   is_running, csv, notified, started, failures, tasks, db, restarts>>

\* end_task, lines 709-710
Enh_end_task_709(t) ==
    /\ IsEnh /\ Loc(t).pc = "e709"
    /\ IF auto_close_timer # NoTimer
       THEN Step(t, [Loc(t) EXCEPT !.pc = "e711"], Cancel(auto_close_timer))
       ELSE Step(t, Returned(t), timers)
    /\ UNCHANGED <<othervars, variant, categories, selector, now, current_task, task_start_time, auto_close_timer,
                   is_running, csv, notified, started, failures, dbvars>>

\* end_task, line 711
Enh_end_task_711(t) ==
    /\ IsEnh /\ Loc(t).pc = "e711"
    /\ auto_close_timer' = NoTimer
    /\ Step(t, Returned(t), timers)
    /\ UNCHANGED <<othervars, variant, categories, selector, now, current_task, task_start_time,
                   is_running, csv, notified, started, failures, dbvars>>

\* reset_auto_close_timer, lines 715-716
Enh_reset_715 ==
    /\ IsEnh /\ gui.pc = "r715"
    /\ timers' = Cancel(auto_close_timer)
    /\ gui' = [gui EXCEPT !.pc = "r718"]
    /\ UNCHANGED <<othervars, variant, categories, selector, now, current_task, task_start_time, auto_close_timer,
                   is_running, csv, notified, started, failures, dbvars>>

\* reset_auto_close_timer, lines 718-720
Enh_reset_718 ==
    /\ IsEnh /\ gui.pc = "r718"
    /\ IF Truthy(current_task)
       THEN /\ now' \in Later
            /\ timers' = Append(timers, NewTimer(now' + AUTO_CLOSE_SECONDS))
            /\ auto_close_timer' = Len(timers) + 1
       ELSE UNCHANGED <<timers, auto_close_timer, now>>
    /\ gui' = IdleGui("started")
    /\ UNCHANGED <<othervars, variant, categories, selector, current_task, task_start_time,
                   is_running, csv, notified, started, failures, dbvars>>

\* threading.Timer.run: the interval elapsed and the Timer was not cancelled
Enh_timer_fires(k) ==
    /\ IsEnh /\ Outstanding(k)
    /\ now' \in Later /\ now' >= timers[k].deadline
    /\ timers' = [timers EXCEPT ![k].pc = "a724", ![k].deadline = NoTime]
    /\ UNCHANGED <<othervars, variant, categories, selector, current_task, task_start_time, auto_close_timer,
                   is_running, gui, csv, notified, started, failures, dbvars>>

\* auto_close_task, lines 724-725, on the Timer's thread
Enh_auto_close_task(k) ==
    /\ IsEnh /\ timers[k].pc = "a724"
    /\ IF Truthy(current_task)
       THEN /\ now' \in Later
            /\ timers' = [timers EXCEPT ![k].pc = "e657", ![k].end_time = now', ![k].ret = "a726"]
       ELSE /\ UNCHANGED now
            /\ timers' = [timers EXCEPT ![k] = DoneTimer]
    /\ UNCHANGED <<othervars, variant, categories, selector, current_task, task_start_time, auto_close_timer,
                   is_running, gui, csv, notified, started, failures, dbvars>>

\* auto_close_task, lines 726-728: the notification is queued for the GUI
Enh_auto_close_726(k) ==
    /\ IsEnh /\ timers[k].pc = "a726"
    /\ timers' = [timers EXCEPT ![k] = DoneTimer]
    /\ notified' = notified + 1
    /\ UNCHANGED <<othervars, variant, categories, selector, now, current_task, task_start_time, auto_close_timer,
                   is_running, gui, csv, started, failures, dbvars>>

\* on_closing, lines 1009-1010
Enh_on_closing ==
    /\ IsEnh /\ gui.pc = "idle"
    /\ IF Truthy(current_task)
       THEN /\ now' \in Later
            /\ gui' = [IdleGui("none") EXCEPT !.pc = "e657", !.op = "closing",
                       !.end_time = now', !.ret = "c1013"]
       ELSE /\ UNCHANGED now
            /\ gui' = [IdleGui("none") EXCEPT !.pc = "c1013", !.op = "closing"]
    /\ UNCHANGED <<othervars, variant, categories, selector, current_task, task_start_time, auto_close_timer,
                   is_running, timers, csv, notified, started, failures, dbvars>>

\* on_closing, lines 1013-1017
Enh_on_closing_1013 ==
    /\ IsEnh /\ gui.pc = "c1013"
    /\ is_running' = FALSE
    /\ timers' = Cancel(auto_close_timer)
    /\ gui' = [IdleGui("closed") EXCEPT !.pc = "closed"]
    /\ UNCHANGED <<othervars, variant, categories, selector, now, current_task, task_start_time, auto_close_timer,
                   csv, notified, started, failures, dbvars>>

\* a fault: the open row is resumed whatever its age
AnyOpenRow(dbOk, clock) == IF dbOk THEN get_last_incomplete_task ELSE { }

\* check_resumable_task, lines 835-844: the open rows of the database that
\* qualify (empty: none, also when the query raises)
ResumableFromDb(dbOk, clock) ==
    IF dbOk
    THEN { i \in get_last_incomplete_task : clock - tasks[i].start < AUTO_CLOSE_SECONDS }
    ELSE { }

\* check_csv_for_resumable_task, lines 859-903: the last row of the log, if
\* its end time is empty and it began less than two hours ago
check_csv_for_resumable_task(clock) ==
    IF csv # << >> /\ csv[Len(csv)].end = NoTime
       /\ clock - csv[Len(csv)].start < AUTO_CLOSE_SECONDS
    THEN { Len(csv) } ELSE { }

\* the process ends (killed, or after on_closing) and is launched again:
\* __init__, lines 40-56, then check_resumable_task, lines 830-855, and
\* resume_task, lines 905-946, before the mainloop starts
Enh_restart ==
    /\ IsEnh /\ restarts < MaxRestarts
    /\ restarts' = restarts + 1
    /\ now' \in Later
    /\ is_running' = TRUE
    /\ gui' = IdleGui("none")
    /\ \E newdb \in BOOLEAN, queryOk \in BOOLEAN :
        /\ db' = newdb
        /\ queryOk \/ (newdb /\ failures < MaxFailures)
        /\ failures' = IF queryOk THEN failures ELSE failures + 1
        /\ LET fromDb == ResumableFromDb(newdb /\ queryOk, now') IN
           IF fromDb # { }
           THEN \E i \in fromDb :
                /\ current_task' = tasks[i].desc
                /\ task_start_time' = tasks[i].start
                /\ current_task_id' = i
                /\ timers' = << NewTimer(ResumeDeadline(tasks[i].start, now')) >>
                /\ auto_close_timer' = 1
           ELSE IF check_csv_for_resumable_task(now') # { }
           THEN \E i \in check_csv_for_resumable_task(now') :
                /\ current_task' = csv[i].desc
                /\ task_start_time' = csv[i].start
                /\ current_task_id' = NoId
                /\ timers' = << NewTimer(ResumeDeadline(csv[i].start, now')) >>
                /\ auto_close_timer' = 1
           ELSE /\ current_task' = NoTask
                /\ task_start_time' = NoTime
                /\ current_task_id' = NoId
                /\ timers' = << >>
                /\ auto_close_timer' = NoTimer
    /\ UNCHANGED <<othervars, variant, categories, selector, csv, notified, started, tasks>>

NextEnh ==
    \/ \E text \in Entries(started + 1) : Enh_start_new_task(text)
    \/ Enh_start_607 \/ Enh_start_624 \/ Enh_start_629
    \/ Enh_stop_current_task
    \/ \E t \in Threads :
        \/ Enh_end_task_657(t) \/ Enh_end_task_681(t) \/ Enh_end_task_696(t)
        \/ Enh_end_task_703(t) \/ Enh_end_task_709(t) \/ Enh_end_task_711(t)
    \/ Enh_reset_715 \/ Enh_reset_718
    \/ \E k \in 1 .. Len(timers) :
        \/ Enh_timer_fires(k) \/ Enh_auto_close_task(k) \/ Enh_auto_close_726(k)
    \/ Enh_on_closing \/ Enh_on_closing_1013
    \/ Enh_restart


-----------------------------------------------------------------------------
(* src/simple_desktop.py.  Every handler runs on the GUI thread, one at a  *)
(* time; there is no Timer.  The clock may advance between two readings   *)
(* made by the same handler.                                               *)

IsSimple == variant = "simple"

\* start_new_task, lines 140-158, with end_current_task, lines 165-195
Simple_start_new_task(text) ==
    /\ IsSimple /\ gui.pc = "idle" /\ started < MaxStarts
    /\ LET task_description == strip(text) IN
       IF ~Truthy(task_description)
       THEN /\ gui' = IdleGui("warning")
            /\ UNCHANGED <<now, current_task, task_start_time, csv, started, failures>>
       ELSE \E end_time \in Later :
            \/ /\ csv' = IF Truthy(current_task) /\ task_start_time # NoTime
                         THEN Append(csv, Before(Row(current_task, task_start_time, end_time, "start"),
                                        task_description))
                         ELSE csv
               /\ \E start_time \in { t \in Later : t >= end_time } :
                    /\ now' = start_time
                    /\ task_start_time' = start_time
               /\ current_task' = task_description
               /\ started' = started + 1
               /\ gui' = IdleGui("none")
               /\ UNCHANGED failures
            \/ \* line 173: open() raises, nothing catches it
               /\ Truthy(current_task) /\ failures < MaxFailures
               /\ failures' = failures + 1
               /\ now' = end_time
               /\ gui' = IdleGui("exception")
               /\ UNCHANGED <<current_task, task_start_time, csv, started>>
    /\ UNCHANGED <<othervars, variant, categories, selector, auto_close_timer, is_running, timers,
                   notified, dbvars>>

\* stop_current_task, lines 162-163, with end_current_task, lines 165-195;
\* the Stop button is disabled while no task runs (lines 93 and 192)
Simple_stop_current_task ==
    /\ IsSimple /\ gui.pc = "idle" /\ Truthy(current_task)
    /\ \E end_time \in Later :
        /\ now' = end_time
        /\ \/ /\ csv' = Append(csv, Row(current_task, task_start_time, end_time, "stop"))
              /\ current_task' = NoTask
              /\ task_start_time' = NoTime
              /\ gui' = IdleGui("none")
              /\ UNCHANGED failures
           \/ /\ failures < MaxFailures
              /\ failures' = failures + 1
              /\ gui' = IdleGui("exception")
              /\ UNCHANGED <<current_task, task_start_time, csv>>
    /\ UNCHANGED <<othervars, variant, categories, selector, auto_close_timer, is_running, timers,
                   notified, started, dbvars>>

\* on_closing, lines 268-277: answer is the user's reply to askyesno
Simple_on_closing(answer) ==
    /\ IsSimple /\ gui.pc = "idle"
    /\ IF Truthy(current_task) /\ answer
       THEN \E end_time \in Later :
            /\ now' = end_time
            /\ \/ /\ csv' = Append(csv, Row(current_task, task_start_time, end_time, "closing"))
                  /\ current_task' = NoTask
                  /\ task_start_time' = NoTime
                  /\ is_running' = FALSE
                  /\ gui' = [IdleGui("none") EXCEPT !.pc = "closed"]
                  /\ UNCHANGED failures
               \/ /\ failures < MaxFailures
                  /\ failures' = failures + 1
                  /\ gui' = IdleGui("exception")
                  /\ UNCHANGED <<current_task, task_start_time, csv, is_running>>
       ELSE /\ is_running' = FALSE
            /\ gui' = [IdleGui("none") EXCEPT !.pc = "closed"]
            /\ UNCHANGED <<now, current_task, task_start_time, csv, failures>>
    /\ UNCHANGED <<othervars, variant, categories, selector, auto_close_timer, timers,
                   notified, started, dbvars>>

NextSimple ==
    \/ \E text \in Entries(started + 1) : Simple_start_new_task(text)
    \/ Simple_stop_current_task
    \/ \E answer \in BOOLEAN : Simple_on_closing(answer)

-----------------------------------------------------------------------------
(* src/enhanced_standalone.py.  The handlers run on the GUI thread, one at *)
(* a time; the Timer's thread only tests self.current_task and queues      *)
(* _auto_close_task_safe for the GUI thread.                               *)

IsStandalone == variant = "standalone"

\* every Timer is a daemon thread (line 677): it ends with the process
AllDone == [k \in 1 .. Len(timers) |-> DoneTimer]

\* start_new_task, lines 503-527, with end_current_task, lines 536-576, and
\* start_auto_close_timer, lines 672-678
Std_start_new_task(text) ==
    /\ IsStandalone /\ gui.pc = "idle" /\ started < MaxStarts
    /\ LET task_description == strip(text) IN
       IF ~Truthy(task_description)
       THEN /\ gui' = IdleGui("warning")
            /\ UNCHANGED <<now, current_task, task_start_time, csv, started, failures,
                           timers, auto_close_timer, selector>>
       ELSE \E end_time \in Later :
            \/ \* the Timer is cancelled at line 563 when a task is closed,
               \* and at line 673 otherwise
               LET closing == Truthy(current_task) /\ task_start_time # NoTime
                   cancelled == Cancel(auto_close_timer)
               IN /\ csv' = IF closing
                            THEN Append(csv, Before(Categorised(
                                        Row(current_task, task_start_time, end_time, "start"),
                                        category_var, start_category), task_description))
                            ELSE csv
                  \* line 569 clears the box when a task was closed; the new
                  \* task keeps no category of its own (line 513 only prints it)
                  /\ category_var' = IF closing THEN NoTask ELSE category_var
                  /\ start_category' = category_var
                  /\ \E start_time \in { t \in Later : t >= end_time } :
                       /\ task_start_time' = start_time
                       /\ \E armed \in { t \in Later : t >= start_time } :
                            /\ now' = armed
                            /\ timers' = Append(cancelled, NewTimer(armed + AUTO_CLOSE_SECONDS))
                  /\ auto_close_timer' = Len(timers) + 1
                  /\ current_task' = task_description
                  /\ started' = started + 1
                  /\ gui' = IdleGui("none")
                  /\ UNCHANGED failures
            \/ \* line 547: open() raises, nothing catches it
               /\ Truthy(current_task) /\ failures < MaxFailures
               /\ failures' = failures + 1
               /\ now' = end_time
               /\ gui' = IdleGui("exception")
               /\ UNCHANGED <<current_task, task_start_time, csv, started,
                              timers, auto_close_timer, selector>>
    /\ UNCHANGED <<othervars, variant, categories, is_running, notified, dbvars>>

\* a close that writes the record and leaves the task current
CloseKeepingTask(by, done) ==
    \E end_time \in Later :
        /\ now' = end_time
        /\ csv' = Append(csv, Categorised(Row(current_task, task_start_time, end_time, by),
                                           category_var, start_category))
        /\ gui' = done
        /\ UNCHANGED <<current_task, task_start_time, timers, auto_close_timer,
                       failures, selector>>

\* end_current_task, lines 536-576, called by by on the GUI thread
Std_end_current_task(by, done) ==
    \E end_time \in Later :
        /\ now' = end_time
        /\ \/ /\ csv' = Append(csv, Categorised(Row(current_task, task_start_time, end_time, by),
                                                 category_var, start_category))
              /\ category_var' = NoTask
              /\ start_category' = NoTask
              /\ timers' = Cancel(auto_close_timer)
              /\ auto_close_timer' = NoTimer
              /\ current_task' = NoTask
              /\ task_start_time' = NoTime
              /\ gui' = done
              /\ UNCHANGED failures
           \/ /\ failures < MaxFailures
              /\ failures' = failures + 1
              /\ gui' = IdleGui("exception")
              /\ UNCHANGED <<current_task, task_start_time, csv, timers, auto_close_timer,
                             selector>>

\* stop_current_task, lines 531-532; the Stop button is disabled while no
\* task runs (lines 225 and 573)
Std_stop_current_task ==
    /\ IsStandalone /\ gui.pc = "idle" /\ Truthy(current_task)
    /\ Std_end_current_task("stop", IdleGui("none"))
    /\ UNCHANGED <<othervars, variant, categories, is_running, notified, started, dbvars>>

\* threading.Timer.run, then auto_close_task, lines 683-689, on the Timer's
\* thread: root.after either queues the callback or raises (caught, line 688)
Std_timer_fires(k, queued) ==
    /\ IsStandalone /\ Outstanding(k)
    /\ now' \in Later /\ now' >= timers[k].deadline
    /\ timers' = [timers EXCEPT ![k] = DoneTimer]
    /\ after_queue' = IF Truthy(current_task) /\ queued THEN after_queue + 1 ELSE after_queue
    /\ UNCHANGED <<requests, variant, categories, selector, current_task, task_start_time, auto_close_timer,
                   is_running, gui, csv, notified, started, failures, dbvars>>

\* update_display, lines 580-609, once a second on the GUI thread
Std_update_display ==
    /\ IsStandalone /\ gui.pc = "idle" /\ is_running
    /\ Truthy(current_task) /\ task_start_time # NoTime
    /\ after_queue < MaxQueue
    /\ now' \in Later
    /\ now' - task_start_time >= AUTO_CLOSE_SECONDS
    /\ after_queue' = after_queue + 1
    /\ UNCHANGED <<requests, variant, categories, selector, current_task, task_start_time, auto_close_timer,
                   is_running, timers, gui, csv, notified, started, failures, dbvars>>

\* _auto_close_task_safe, lines 693-701, taken from the queue by the mainloop
Std_auto_close_task_safe ==
    /\ IsStandalone /\ gui.pc = "idle" /\ after_queue > 0
    /\ after_queue' = after_queue - 1
    /\ IF Truthy(current_task)
       THEN /\ notified' = notified + 1
            /\ Std_end_current_task("auto", IdleGui("none"))
       ELSE UNCHANGED <<now, notified, current_task, task_start_time, csv, timers,
                        auto_close_timer, gui, failures, selector>>
    /\ UNCHANGED <<requests, variant, categories, is_running, started, dbvars>>

\* actual_close, lines 820-827: answer is the user's reply to askyesno
Std_actual_close(answer) ==
    /\ IsStandalone /\ gui.pc = "idle"
    /\ IF Truthy(current_task) /\ answer
       THEN \E end_time \in Later :
            /\ now' = end_time
            /\ \/ /\ csv' = Append(csv, Categorised(
                                        Row(current_task, task_start_time, end_time, "closing"),
                                        category_var, start_category))
                  /\ category_var' = NoTask
                  /\ start_category' = NoTask
                  /\ auto_close_timer' = NoTimer
                  /\ current_task' = NoTask
                  /\ task_start_time' = NoTime
                  /\ is_running' = FALSE
                  /\ timers' = AllDone
                  /\ after_queue' = 0
                  /\ gui' = [IdleGui("none") EXCEPT !.pc = "closed"]
                  /\ UNCHANGED failures
               \/ /\ failures < MaxFailures
                  /\ failures' = failures + 1
                  /\ gui' = IdleGui("exception")
                  /\ UNCHANGED <<current_task, task_start_time, csv, is_running,
                                 timers, auto_close_timer, after_queue, selector>>
       ELSE /\ is_running' = FALSE
            /\ timers' = AllDone
            /\ after_queue' = 0
            /\ gui' = [IdleGui("none") EXCEPT !.pc = "closed"]
            /\ UNCHANGED <<now, current_task, task_start_time, csv, failures, auto_close_timer,
                           selector>>
    /\ UNCHANGED <<requests, variant, categories, notified, started, dbvars>>

\* the names offered by the category box: load_categories, line 376
CategoryChoices == { NoTask } \cup { categories[i].name : i \in 1 .. Len(categories) }

\* the user picks a name in the (read-only) category box, lines 213-215
Std_select_category(name) ==
    /\ IsStandalone /\ gui.pc = "idle" /\ is_running
    /\ name # category_var
    /\ category_var' = name
    /\ UNCHANGED <<othervars, variant, categories, start_category, now, current_task,
                   task_start_time, auto_close_timer, is_running, timers, gui, csv,
                   notified, started, failures, dbvars>>

NextStandalone ==
    \/ \E text \in Entries(started + 1) : Std_start_new_task(text)
    \/ Std_stop_current_task
    \/ \E k \in 1 .. Len(timers), queued \in BOOLEAN : Std_timer_fires(k, queued)
    \/ Std_update_display
    \/ Std_auto_close_task_safe
    \/ \E answer \in BOOLEAN : Std_actual_close(answer)
    \/ \E name \in CategoryChoices : Std_select_category(name)

-----------------------------------------------------------------------------
(* The Flask variants.  A request is served by a worker thread; its        *)
(* response status is kept until the worker serves its next request.       *)

Workers == 1 .. MaxWorkers

IdleReq(op, status) ==
    [pc |-> "idle", op |-> op, desc |-> NoTask, id |-> NoId,
     end_time |-> NoTime, status |-> status]

NoRequests == [r \in Workers |-> IdleReq("none", 0)]

-----------------------------------------------------------------------------
(* src/web_standalone.py: current_task and task_start_time are the         *)
(* 'task_description' and 'start_time' of the global current_task dict.    *)

IsWeb == variant = "web"

\* start_task, lines 188-235
Web_start_task(r, text) ==
    /\ IsWeb /\ started < MaxStarts
    /\ LET task_description == strip(text) IN
       IF ~Truthy(task_description)
       THEN /\ requests' = [requests EXCEPT ![r] = IdleReq("start", 400)]
            /\ UNCHANGED <<now, current_task, task_start_time, csv, started, failures>>
       ELSE \E end_time \in Later :
            \/ /\ csv' = IF Truthy(current_task)
                         THEN Append(csv, Before(Row(current_task, task_start_time, end_time, "start"),
                                        task_description))
                         ELSE csv
               /\ \E start_time \in { t \in Later : t >= end_time } :
                    /\ now' = start_time
                    /\ task_start_time' = start_time
               /\ current_task' = task_description
               /\ started' = started + 1
               /\ requests' = [requests EXCEPT ![r] = IdleReq("start", 200)]
               /\ UNCHANGED failures
            \/ \* line 204: open() raises, Flask answers 500
               /\ Truthy(current_task) /\ failures < MaxFailures
               /\ failures' = failures + 1
               /\ now' = end_time
               /\ requests' = [requests EXCEPT ![r] = IdleReq("start", 500)]
               /\ UNCHANGED <<current_task, task_start_time, csv, started>>
    /\ UNCHANGED <<after_queue, variant, categories, selector, auto_close_timer, is_running, timers, gui,
                   notified, dbvars>>

\* stop_task, lines 239-269
Web_stop_task(r) ==
    /\ IsWeb
    /\ IF ~Truthy(current_task)
       THEN /\ requests' = [requests EXCEPT ![r] = IdleReq("stop", 400)]
            /\ UNCHANGED <<now, current_task, task_start_time, csv, failures>>
       ELSE \E end_time \in Later :
            /\ now' = end_time
            /\ \/ /\ csv' = Append(csv, Row(current_task, task_start_time, end_time, "stop"))
                  /\ current_task' = NoTask
                  /\ task_start_time' = NoTime
                  /\ requests' = [requests EXCEPT ![r] = IdleReq("stop", 200)]
                  /\ UNCHANGED failures
               \/ /\ failures < MaxFailures
                  /\ failures' = failures + 1
                  /\ requests' = [requests EXCEPT ![r] = IdleReq("stop", 500)]
                  /\ UNCHANGED <<current_task, task_start_time, csv>>
    /\ UNCHANGED <<after_queue, variant, categories, selector, auto_close_timer, is_running, timers, gui,
                   notified, started, dbvars>>

NextWeb ==
    \/ \E text \in Entries(started + 1) : Web_start_task(1, text)
    \/ Web_stop_task(1)

-----------------------------------------------------------------------------
(* src/web_app.py: requests are served concurrently and interleave between *)
(* their database calls.  current_task and task_start_time are the         *)
(* 'task_description' and 'start_time' of the global current_task_csv.     *)

IsWebApp == variant = "webapp"

\* a database call of a request raises: at most MaxFailures times
DbRaises == failures < MaxFailures /\ failures' = failures + 1

\* start_task, lines 230-237
WebApp_start_task(r, text) ==
    /\ IsWebApp /\ requests[r].pc = "idle" /\ started < MaxStartsDb
    /\ LET task_description == strip(text) IN
       IF ~Truthy(task_description)
       THEN /\ requests' = [requests EXCEPT ![r] = IdleReq("start", 400)]
            /\ UNCHANGED started
       ELSE /\ requests' = [requests EXCEPT ![r] =
                               [IdleReq("start", 0) EXCEPT
                                   !.pc = IF db THEN "w240" ELSE "w263",
                                   !.desc = task_description]]
            /\ started' = started + 1
    /\ UNCHANGED <<after_queue, variant, categories, selector, now, current_task, task_start_time,
                   auto_close_timer, is_running, timers, gui, csv, notified,
                   failures, dbvars>>

\* start_task, lines 240-242: the open row, and the instant it is closed at
WebApp_start_240(r) ==
    /\ IsWebApp /\ requests[r].pc = "w240"
    /\ \/ /\ DbRaises
          /\ requests' = [requests EXCEPT ![r].pc = "w263"]
          /\ UNCHANGED now
       \/ /\ get_last_incomplete_task = { }
          /\ requests' = [requests EXCEPT ![r].pc = "w247"]
          /\ UNCHANGED <<now, failures>>
       \/ /\ \E i \in get_last_incomplete_task :
                /\ now' \in Later
                /\ requests' = [requests EXCEPT ![r].pc = "w244", ![r].id = i,
                                                ![r].end_time = now']
          /\ UNCHANGED failures
    /\ UNCHANGED <<after_queue, variant, categories, selector, current_task, task_start_time,
                   auto_close_timer, is_running, timers, gui, csv, notified,
                   started, dbvars>>

\* start_task, lines 243-244: db.end_task
WebApp_start_244(r) ==
    /\ IsWebApp /\ requests[r].pc = "w244"
    /\ \/ /\ DbRaises
          /\ requests' = [requests EXCEPT ![r].pc = "w263"]
          /\ UNCHANGED tasks
       \/ /\ tasks' = end_task(requests[r].id, requests[r].end_time,
                               numeric_10_2(tasks[requests[r].id].start,
                                            requests[r].end_time))
          /\ requests' = [requests EXCEPT ![r].pc = "w247"]
          /\ UNCHANGED failures
    /\ UNCHANGED <<after_queue, variant, categories, selector, now, current_task, task_start_time,
                   auto_close_timer, is_running, timers, gui, csv, notified,
                   started, current_task_id, db, restarts>>

\* start_task, lines 247-255: db.add_task and the response
WebApp_start_247(r) ==
    /\ IsWebApp /\ requests[r].pc = "w247"
    /\ now' \in Later
    /\ \/ /\ DbRaises
          /\ requests' = [requests EXCEPT ![r].pc = "w263"]
          /\ UNCHANGED tasks
       \/ /\ tasks' = add_task(requests[r].desc, now')
          /\ requests' = [requests EXCEPT ![r] = IdleReq("start", 200)]
          /\ UNCHANGED failures
    /\ UNCHANGED <<after_queue, variant, categories, selector, current_task, task_start_time,
                   auto_close_timer, is_running, timers, gui, csv, notified,
                   started, current_task_id, db, restarts>>

\* start_task, lines 260-298: the CSV fallback
WebApp_start_263(r) ==
    /\ IsWebApp /\ requests[r].pc = "w263"
    /\ \E end_time \in Later :
        \/ /\ csv' = IF Truthy(current_task)
                     THEN Append(csv, Before(Row(current_task, task_start_time, end_time, "start"),
                                        requests[r].desc))
                     ELSE csv
           /\ \E start_time \in { t \in Later : t >= end_time } :
                /\ now' = start_time
                /\ task_start_time' = start_time
           /\ current_task' = requests[r].desc
           /\ requests' = [requests EXCEPT ![r] = IdleReq("start", 200)]
           /\ UNCHANGED failures
        \/ \* line 269: open() raises, Flask answers 500
           /\ Truthy(current_task) /\ failures < MaxFailures
           /\ failures' = failures + 1
           /\ now' = end_time
           /\ requests' = [requests EXCEPT ![r] = IdleReq("start", 500)]
           /\ UNCHANGED <<current_task, task_start_time, csv>>
    /\ UNCHANGED <<after_queue, variant, categories, selector, auto_close_timer, is_running, timers, gui,
                   notified, started, dbvars>>

\* stop_task, lines 303-304
WebApp_stop_task(r) ==
    /\ IsWebApp /\ requests[r].pc = "idle"
    /\ requests' = [requests EXCEPT ![r] =
                       IF db THEN [IdleReq("stop", 0) EXCEPT !.pc = "p307"]
                       ELSE IdleReq("stop", 500)]
    /\ UNCHANGED <<after_queue, variant, categories, selector, now, current_task, task_start_time,
                   auto_close_timer, is_running, timers, gui, csv, notified,
                   started, failures, dbvars>>

\* stop_task, lines 307-311: the open row, and the instant it is closed at
WebApp_stop_307(r) ==
    /\ IsWebApp /\ requests[r].pc = "p307"
    /\ \/ /\ DbRaises
          /\ requests' = [requests EXCEPT ![r] = IdleReq("stop", 500)]
          /\ UNCHANGED now
       \/ /\ get_last_incomplete_task = { }
          /\ requests' = [requests EXCEPT ![r] = IdleReq("stop", 400)]
          /\ UNCHANGED <<now, failures>>
       \/ /\ \E i \in get_last_incomplete_task :
                /\ now' \in Later
                /\ requests' = [requests EXCEPT ![r].pc = "p313", ![r].id = i,
                                                ![r].end_time = now']
          /\ UNCHANGED failures
    /\ UNCHANGED <<after_queue, variant, categories, selector, current_task, task_start_time,
                   auto_close_timer, is_running, timers, gui, csv, notified,
                   started, dbvars>>

\* stop_task, lines 312-318: db.end_task and the response
WebApp_stop_313(r) ==
    /\ IsWebApp /\ requests[r].pc = "p313"
    /\ \/ /\ DbRaises
          /\ requests' = [requests EXCEPT ![r] = IdleReq("stop", 500)]
          /\ UNCHANGED tasks
       \/ /\ tasks' = end_task(requests[r].id, requests[r].end_time,
                               numeric_10_2(tasks[requests[r].id].start,
                                            requests[r].end_time))
          /\ requests' = [requests EXCEPT ![r] = IdleReq("stop", 200)]
          /\ UNCHANGED failures
    /\ UNCHANGED <<after_queue, variant, categories, selector, now, current_task, task_start_time,
                   auto_close_timer, is_running, timers, gui, csv, notified,
                   started, current_task_id, db, restarts>>

\* get_current_task, lines 206-225: the description of the task the handler
\* reports (NoTask: null); raises is whether db.get_last_incomplete_task()
\* raised, which sends the handler to current_task_csv as a missing database does
get_current_task(raises) ==
    IF db /\ ~raises
    THEN IF get_last_incomplete_task = { } THEN { NoTask }
         ELSE { tasks[i].desc : i \in get_last_incomplete_task }
    ELSE { current_task }

NextWebApp ==
    \E r \in Workers :
        \/ \E text \in Entries(started + 1) : WebApp_start_task(r, text)
        \/ WebApp_start_240(r) \/ WebApp_start_244(r) \/ WebApp_start_247(r)
        \/ WebApp_start_263(r)
        \/ WebApp_stop_task(r) \/ WebApp_stop_307(r) \/ WebApp_stop_313(r)

-----------------------------------------------------------------------------
(* The category store.  A name is a text whose letters are 1 .. 9 in lower *)
(* case and 11 .. 19 in upper case.  The handlers below run one at a time  *)
(* and touch nothing but the store, so they are explored on their own, in  *)
(* SpecCategories.                                                         *)

\* str.lower()
lower(s) == [i \in 1 .. Len(s) |-> IF s[i] > 10 THEN s[i] - 10 ELSE s[i]]

\* the store after initialize_csv_files (src/enhanced_standalone.py, lines
\* 78-86) or initialize_database (src/models.py, lines 63-67): the default
\* categories, of which the first, 'Work', is kept
DefaultCategories == << [id |-> 1, name |-> <<11>>] >>

\* what the user may type as a category name: '', 'w', 'W', 'p', ' w '
CategoryEntries == { << >>, <<1>>, <<11>>, <<2>>, <<Space, 1, Space>> }

\* max([cat['id'] for cat in categories], default=0) + 1
RECURSIVE MaxId(_)
MaxId(cats) ==
    IF cats = << >> THEN 0
    ELSE LET m == MaxId(Tail(cats)) IN IF Head(cats).id > m THEN Head(cats).id ELSE m

\* get_categories / read_categories: the rows of the file; when the read
\* raises, the rows read so far are returned (the exception is printed)
ReadCategories(ok) ==
    IF ok THEN { categories }
    ELSE { SubSeq(categories, 1, n) : n \in 0 .. Len(categories) - 1 }

\* the check of the CSV stores: cat['name'].lower() == name.lower()
NameExists(cats, name) ==
    \E i \in 1 .. Len(cats) : lower(cats[i].name) = lower(name)

\* the check of the database: name VARCHAR(100) NOT NULL UNIQUE
\* (src/models.py, line 32) raises IntegrityError for an equal name
IntegrityError(name) ==
    \E i \in 1 .. Len(categories) : categories[i].name = name

\* the steps of a handler outside the category store
CategoryFrame ==
    UNCHANGED <<variant, selector, now, current_task, task_start_time, auto_close_timer,
                is_running, timers, csv, notified, started, tasks,
                current_task_id, db, restarts, after_queue>>

\* src/enhanced_standalone.py: add_category_gui, lines 444-456, with
\* add_category, lines 137-150
Std_add_category_gui(text, readOk) ==
    /\ IsStandalone /\ gui.pc = "idle" /\ Len(categories) < MaxCategories
    /\ readOk \/ failures < MaxFailures
    /\ failures' = IF readOk THEN failures ELSE failures + 1
    /\ LET name == strip(text) IN
       IF ~Truthy(name)
       THEN gui' = IdleGui("warning") /\ UNCHANGED categories
       ELSE \E cats \in ReadCategories(readOk) :
            IF NameExists(cats, name)
            THEN gui' = IdleGui("error") /\ UNCHANGED categories
            ELSE /\ categories' = Append(categories, [id |-> MaxId(cats) + 1, name |-> name])
                 /\ gui' = IdleGui("success")
    /\ UNCHANGED requests
    /\ CategoryFrame

\* src/web_standalone.py: add_category, lines 124-145
Web_add_category(r, text, readOk) ==
    /\ IsWeb /\ Len(categories) < MaxCategories
    /\ readOk \/ failures < MaxFailures
    /\ failures' = IF readOk THEN failures ELSE failures + 1
    /\ LET name == strip(text) IN
       IF ~Truthy(name)
       THEN /\ requests' = [requests EXCEPT ![r] = IdleReq("add_category", 400)]
            /\ UNCHANGED categories
       ELSE \E cats \in ReadCategories(readOk) :
            IF NameExists(cats, name)
            THEN /\ requests' = [requests EXCEPT ![r] = IdleReq("add_category", 400)]
                 /\ UNCHANGED categories
            ELSE /\ categories' = Append(categories, [id |-> MaxId(cats) + 1, name |-> name])
                 /\ requests' = [requests EXCEPT ![r] = IdleReq("add_category", 200)]
    /\ UNCHANGED gui
    /\ CategoryFrame

\* src/models.py: add_category, lines 94-110: the INSERT, which the UNIQUE
\* constraint refuses; the id is the next value of the SERIAL column
add_category(name) ==
    Append(categories, [id |-> MaxId(categories) + 1, name |-> name])

\* src/web_app.py: add_category, lines 131-147
WebApp_add_category(r, text) ==
    /\ IsWebApp /\ requests[r].pc = "idle" /\ Len(categories) < MaxCategories
    /\ LET name == strip(text) IN
       IF ~db
       THEN /\ requests' = [requests EXCEPT ![r] = IdleReq("add_category", 500)]
            /\ UNCHANGED <<categories, failures>>
       ELSE IF ~Truthy(name)
       THEN /\ requests' = [requests EXCEPT ![r] = IdleReq("add_category", 400)]
            /\ UNCHANGED <<categories, failures>>
       ELSE \/ /\ DbRaises
               /\ requests' = [requests EXCEPT ![r] = IdleReq("add_category", 500)]
               /\ UNCHANGED categories
            \/ /\ IntegrityError(name)
               /\ requests' = [requests EXCEPT ![r] = IdleReq("add_category", 400)]
               /\ UNCHANGED <<categories, failures>>
            \/ /\ ~IntegrityError(name)
               /\ categories' = add_category(name)
               /\ requests' = [requests EXCEPT ![r] = IdleReq("add_category", 200)]
               /\ UNCHANGED failures
    /\ UNCHANGED gui
    /\ CategoryFrame

\* src/main_enhanced.py: add_category, lines 457-480
Enh_add_category(text) ==
    /\ IsEnh /\ gui.pc = "idle" /\ Len(categories) < MaxCategories
    /\ LET name == strip(text) IN
       IF ~db \/ ~Truthy(name)
       THEN gui' = IdleGui("warning") /\ UNCHANGED <<categories, failures>>
       ELSE \/ /\ DbRaises
               /\ gui' = IdleGui("error")
               /\ UNCHANGED categories
            \/ /\ IntegrityError(name)
               /\ gui' = IdleGui("error")
               /\ UNCHANGED <<categories, failures>>
            \/ /\ ~IntegrityError(name)
               /\ categories' = add_category(name)
               /\ gui' = IdleGui("success")
               /\ UNCHANGED failures
    /\ UNCHANGED requests
    /\ CategoryFrame

\* src/models.py: the methods class DatabaseManager defines, lines 13-262
DatabaseManagerMethods ==
    { "__init__", "get_connection", "initialize_database", "get_categories",
      "add_category", "get_custom_buttons", "add_custom_button",
      "delete_custom_button", "add_task", "end_task", "get_recent_tasks",
      "get_tasks_by_category", "get_last_incomplete_task", "get_task_summary" }

\* self.db.<name>: the attribute lookup raises AttributeError
AttributeError(name) == name \notin DatabaseManagerMethods

\* the ids of the stored categories
CategoryIds == { categories[i].id : i \in 1 .. Len(categories) }

\* src/web_app.py: delete_category, lines 194-204: db.delete_category raises
\* AttributeError, which line 203 catches and answers with status 500
WebApp_delete_category(r, category_id) ==
    /\ IsWebApp /\ requests[r].pc = "idle"
    /\ IF ~db
       THEN requests' = [requests EXCEPT ![r] = IdleReq("delete_category", 500)]
       ELSE /\ AttributeError("delete_category")
            /\ requests' = [requests EXCEPT ![r] = IdleReq("delete_category", 500)]
    /\ UNCHANGED <<categories, failures, gui>>
    /\ CategoryFrame

\* src/main_enhanced.py: delete_category, lines 545-571, for the category
\* selected in the tree; confirmed is the user's reply to askyesno
Enh_delete_category(category_id, confirmed) ==
    /\ IsEnh /\ gui.pc = "idle"
    /\ IF ~db
       THEN gui' = [IdleGui("warning") EXCEPT !.op = "delete_category"]
       ELSE /\ category_id \in CategoryIds
            /\ IF ~confirmed
               THEN gui' = [IdleGui("none") EXCEPT !.op = "delete_category"]
               ELSE /\ AttributeError("delete_category")
                    /\ gui' = [IdleGui("error") EXCEPT !.op = "delete_category"]
    /\ UNCHANGED <<categories, failures, requests>>
    /\ CategoryFrame

NextCategories ==
    \/ \E category_id \in 1 .. MaxCategories :
        \/ \E r \in Workers : WebApp_delete_category(r, category_id)
        \/ \E confirmed \in BOOLEAN : Enh_delete_category(category_id, confirmed)
    \/ \E text \in CategoryEntries :
           \/ \E readOk \in BOOLEAN : Std_add_category_gui(text, readOk)
           \/ \E readOk \in BOOLEAN : Web_add_category(1, text, readOk)
           \/ \E r \in Workers : WebApp_add_category(r, text)
           \/ Enh_add_category(text)

-----------------------------------------------------------------------------
(* The state after construction (__init__, or the import of the module)    *)

Constructed(v) ==
    /\ variant = v
    /\ now = 0
    /\ current_task = NoTask
    /\ task_start_time = NoTime
    /\ auto_close_timer = NoTimer
    /\ is_running = TRUE
    /\ timers = << >>
    /\ gui = IdleGui("none")
    /\ csv = << >>
    /\ notified = 0
    /\ started = 0
    /\ failures = 0
    /\ tasks = << >>
    /\ current_task_id = NoId
    /\ restarts = 0
    /\ requests = NoRequests
    /\ after_queue = 0
    /\ categories = DefaultCategories
    /\ category_var = NoTask
    /\ start_category = NoTask

InitMain == Constructed("main") /\ db = FALSE

\* a first launch of src/main_enhanced.py, with or without a database
InitEnh == Constructed("enhanced") /\ db \in BOOLEAN

InitSimple == Constructed("simple") /\ db = FALSE

InitStandalone == Constructed("standalone") /\ db = FALSE

InitWeb == Constructed("web") /\ db = FALSE

\* src/web_app.py, lines 17-25: with or without a database
InitWebApp == Constructed("webapp") /\ db \in BOOLEAN

Init ==
    \/ InitMain \/ InitEnh \/ InitSimple
    \/ InitStandalone \/ InitWeb \/ InitWebApp

Next ==
    \/ NextMain \/ NextEnh \/ NextSimple
    \/ NextStandalone \/ NextWeb \/ NextWebApp

SpecMain == InitMain /\ [][NextMain]_vars

SpecEnh == InitEnh /\ [][NextEnh]_vars

SpecSimple == InitSimple /\ [][NextSimple]_vars

SpecStandalone == InitStandalone /\ [][NextStandalone]_vars

SpecWeb == InitWeb /\ [][NextWeb]_vars

SpecWebApp == InitWebApp /\ [][NextWebApp]_vars

Spec == Init /\ [][Next]_vars

\* the category management of the four variants that have categories
InitCategories == InitEnh \/ InitStandalone \/ InitWeb \/ InitWebApp

SpecCategories == InitCategories /\ [][NextCategories]_vars

\* src/main.py and src/main_enhanced.py together
SpecDesktop == (InitMain \/ InitEnh) /\ [][NextMain \/ NextEnh]_vars

-----------------------------------------------------------------------------
(* Properties *)

\* what a start or a stop may change besides its own report
Lifecycle ==
    <<current_task, task_start_time, auto_close_timer, timers, csv, tasks,
      current_task_id, after_queue>>

\* the countdowns still to fire
Countdowns == { k \in 1 .. Len(timers) : Outstanding(k) }

\* C1: in the database-backed variants (main_enhanced, web_app) at most one
\* row of the tasks table has a NULL end_time, whatever operations ran,
\* database errors and stale open rows at startup included.
C1_AtMostOneOpenRow ==
    variant \in {"enhanced", "webapp"} => Cardinality(OpenRows) <= 1

\* C2: in main.py no task gets two rows in the log, however the Timer
\* thread's auto_close_task interleaves with a stop or start on the GUI thread.
C2_OneRowPerTask ==
    variant = "main" =>
        \A i, j \in 1 .. Len(csv) :
            (csv[i].desc = csv[j].desc /\ csv[i].start = csv[j].start) => i = j

\* C3: in main.py and main_enhanced.py every row appended by auto_close has
\* end_time - start_time >= 7200 seconds: a countdown never closes a task
\* other than the one it was armed for.
C3_AutoCloseOnlyAfterCountdown ==
    variant \in {"main", "enhanced"} =>
        \A i \in 1 .. Len(csv) :
            csv[i].by = "auto" => csv[i].end - csv[i].start >= AUTO_CLOSE_SECONDS

\* C4: in main.py and main_enhanced.py the step of start_new_task that makes
\* the new task B current gives it, as start time, exactly the end time of
\* the row this start appended for the task it closed; in main_enhanced.py
\* the row inserted for B in the database carries that same instant.
C4_ImplicitCloseAtStartInstant ==
    [][ /\ (Main_start_165 \/ Enh_start_624) =>
            /\ current_task' = gui.desc
            /\ \A i \in 1 .. Len(csv) :
                 (csv[i].by = "start" /\ csv[i].next = gui.desc)
                     => csv[i].end = task_start_time'
        /\ (Enh_start_629 /\ Len(tasks') > Len(tasks)) =>
            \A i \in 1 .. Len(csv) :
                 (csv[i].by = "start" /\ csv[i].next = gui.desc)
                     => csv[i].end = tasks'[Len(tasks')].start
      ]_vars

\* a start closed a task that had run for a while, and the new task is current
C4_Witness ==
    /\ variant = "enhanced" /\ Truthy(current_task) /\ current_task_id # NoId
    /\ \E i \in 1 .. Len(csv) :
        /\ csv[i].by = "start" /\ csv[i].next = current_task
        /\ csv[i].end > csv[i].start
        /\ csv[i].end = task_start_time
        /\ tasks[current_task_id].start = csv[i].end

\* text that is empty after trimming
Blank(text) == \A i \in 1 .. Len(text) : text[i] = Space

\* C5: in every variant a start whose description is empty after trimming is
\* answered by the warning (HTTP 400 in the web variants) and leaves the
\* current task, its start time, the countdowns and the records unchanged.
C5_EmptyStartRejected ==
    [][ \A text \in { e \in Entries(started + 1) : Blank(e) } :
          /\ (\/ Main_start_new_task(text) \/ Enh_start_new_task(text)
              \/ Simple_start_new_task(text) \/ Std_start_new_task(text))
                => (gui' = IdleGui("warning") /\ UNCHANGED Lifecycle)
          /\ Web_start_task(1, text)
                => (requests'[1] = IdleReq("start", 400) /\ UNCHANGED Lifecycle)
          /\ \A r \in Workers :
                WebApp_start_task(r, text)
                    => (requests'[r] = IdleReq("start", 400) /\ UNCHANGED Lifecycle)
      ]_vars

\* an empty start was refused while a task was running under its countdown
C5_Witness ==
    /\ variant = "main" /\ gui = IdleGui("warning")
    /\ Truthy(current_task) /\ Countdowns # { }

\* C6: a stop issued while no task is active is reported (the information
\* dialog of main.py and main_enhanced.py, an HTTP error status in the web
\* variants) and changes nothing; simple_desktop and enhanced_standalone
\* disable the Stop button while no task runs.
C6_IdleStopReported ==
    [][ current_task = NoTask =>
          /\ (Main_stop_current_task \/ Enh_stop_current_task)
                => (gui' = IdleGui("info") /\ UNCHANGED Lifecycle)
          /\ Web_stop_task(1)
                => (requests'[1] = IdleReq("stop", 400) /\ UNCHANGED Lifecycle)
          /\ \A r \in Workers :
                ((WebApp_stop_task(r) /\ ~db) \/ (WebApp_stop_307(r) /\ OpenRows = { }))
                    => /\ requests'[r].pc = "idle" /\ requests'[r].op = "stop"
                       /\ requests'[r].status >= 400
                       /\ UNCHANGED Lifecycle
      ]_vars

\* a stop right after an auto-close was answered by the dialog
C6_Witness ==
    /\ variant = "main" /\ gui = IdleGui("info") /\ current_task = NoTask
    /\ csv # << >> /\ csv[Len(csv)].by = "auto"

\* C7: in web_app a stop request issued while a task runs closes it, in the
\* CSV fallback (no database, task held in current_task_csv) as in database
\* mode: the response is a success, one closed record is persisted and no
\* task runs afterwards.
C7_StopClosesRunningTask ==
    [][ \A r \in Workers :
          /\ (WebApp_stop_task(r) /\ ~db /\ Truthy(current_task)) =>
                /\ requests'[r] = IdleReq("stop", 200)
                /\ current_task' = NoTask
                /\ Len(csv') = Len(csv) + 1
          /\ (WebApp_stop_313(r) /\ failures' = failures) =>
                /\ requests'[r] = IdleReq("stop", 200)
                /\ tasks'[requests[r].id].end_time = requests[r].end_time
      ]_vars

\* C8: in main.py a task started at t0 and left alone (one start, no other
\* operation, no I/O error) is, once its countdown has run, closed with
\* exactly one record whose end_time is t0 + 7200 s (120.00 minutes); the
\* controller is idle and the countdown cleared.
C8_AutoClosedAtDeadline ==
    (/\ variant = "main" /\ started = 1 /\ failures = 0
     /\ gui = IdleGui("started") /\ timers = << DoneTimer >>)
    => /\ current_task = NoTask /\ task_start_time = NoTime
       /\ auto_close_timer = NoTimer
       /\ Len(csv) = 1 /\ csv[1].by = "auto"
       /\ csv[1].end = csv[1].start + AUTO_CLOSE_SECONDS
       /\ csv[1].minutes = 12000

\* C9: in every variant a task that is current once its start has been
\* served has a countdown: a Timer was created for it.
C9_StartArmsCountdown ==
    (/\ Truthy(current_task) /\ gui.pc = "idle"
     /\ \A r \in Workers : requests[r].pc = "idle")
    => timers # << >>

\* C10: in main.py, main_enhanced.py and enhanced_standalone.py at most one
\* uncancelled countdown is outstanding.
C10_AtMostOneCountdown ==
    variant \in {"main", "enhanced", "standalone"} => Cardinality(Countdowns) <= 1

\* no handler is running: the GUI thread waits for an event and no Timer
\* thread is inside its callback
Quiescent ==
    /\ gui.pc \in {"idle", "closed"}
    /\ \A k \in 1 .. Len(timers) : timers[k].pc \in {"wait", "done"}

\* C11: in main.py, whenever every operation has completed, a countdown is
\* outstanding if and only if a task is active.
C11_CountdownIffActive ==
    (variant = "main" /\ Quiescent) => (Countdowns # { } <=> Truthy(current_task))

\* m hundredths of a minute is seconds / 60 rounded to two decimals: the
\* nearest hundredth, at most half a hundredth away
Nearest(m, seconds) == 6 * m - 10 * seconds \in -3 .. 3

\* C12: in every variant every closed record, in the log and in the tasks
\* table, carries as duration_minutes its (end_time - start_time) in seconds
\* divided by 60 and rounded to two decimals.
C12_DurationRounded ==
    /\ \A i \in 1 .. Len(csv) :
        csv[i].end >= csv[i].start =>
            Nearest(csv[i].minutes, csv[i].end - csv[i].start)
    /\ \A i \in 1 .. Len(tasks) :
        (tasks[i].end_time # NoTime /\ tasks[i].end_time >= tasks[i].start) =>
            Nearest(tasks[i].minutes, tasks[i].end_time - tasks[i].start)

\* C13: in main.py and main_enhanced.py a close is never lost: once the
\* operations on the first task have completed (the process still running),
\* the task either has its record in the log or, the write having failed,
\* is still the current task with its start time.
C13_CloseNotLost ==
    (/\ variant \in {"main", "enhanced"} /\ restarts = 0
     /\ started = 1 /\ Quiescent)
    => \/ Truthy(current_task) /\ task_start_time # NoTime
       \/ \E i \in 1 .. Len(csv) : csv[i].desc = <<1>>

\* C14: a database call that fails while persisting a task's creation or
\* close is answered with an error: the web_app request in which db.end_task
\* or db.add_task raised ends with an error status, and the main_enhanced
\* handler in which they raised reports an error, instead of going on as if
\* the call had succeeded.
C14_DbFailureSurfaced ==
    [][ /\ \A r \in Workers :
            ((WebApp_start_244(r) \/ WebApp_start_247(r)) /\ failures' > failures)
            => (requests'[r].pc = "idle" /\ requests'[r].status >= 400)
        /\ ((Enh_start_629 \/ \E t \in Threads : Enh_end_task_696(t))
            /\ failures' > failures)
           => gui'.result = "error"
      ]_vars

\* C15: a task's end_time is set exactly once: no step changes the end_time
\* or the duration_minutes of a row of the tasks table that is already
\* closed, concurrent requests of web_app included.
C15_EndTimeSetOnce ==
    [][ \A i \in 1 .. Len(tasks) :
            tasks[i].end_time # NoTime =>
                /\ tasks'[i].end_time = tasks[i].end_time
                /\ tasks'[i].minutes = tasks[i].minutes
      ]_vars

\* C16: in main_enhanced.py the countdown armed for a task adopted at
\* startup elapses at the task's start_time + 7200 s: it runs for the
\* remaining time, not for a fresh 7200 s.
C16_ResumeArmsRemainingTime ==
    [][ (Enh_restart /\ Truthy(current_task'))
        => /\ auto_close_timer' # NoTimer
           /\ timers'[auto_close_timer'].deadline = task_start_time' + AUTO_CLOSE_SECONDS
      ]_vars

\* C17: in main_enhanced.py the open row that startup finds in the database
\* (the query succeeded) is, when it is 7200 s old or older, closed with
\* end_time = start_time + 7200 s.
C17_StaleTaskClosedAtStartup ==
    [][ (Enh_restart /\ db' /\ failures' = failures)
        => \A i \in get_last_incomplete_task :
              now' - tasks[i].start >= AUTO_CLOSE_SECONDS
              => tasks'[i].end_time = tasks[i].start + AUTO_CLOSE_SECONDS
      ]_vars

\* C18: in main_enhanced.py the task that startup makes current is a
\* persisted record without end time that began less than 7200 s ago: an
\* open row of the tasks table, or the open last row of the log.
C18_AdoptOnlyFreshOpenTask ==
    [][ (Enh_restart /\ Truthy(current_task'))
        => \/ \E i \in 1 .. Len(tasks) :
                /\ db' /\ current_task_id' = i
                /\ tasks[i].end_time = NoTime
                /\ now' - tasks[i].start < AUTO_CLOSE_SECONDS
                /\ current_task' = tasks[i].desc
                /\ task_start_time' = tasks[i].start
           \/ /\ csv # << >> /\ current_task_id' = NoId
              /\ csv[Len(csv)].end = NoTime
              /\ now' - csv[Len(csv)].start < AUTO_CLOSE_SECONDS
              /\ current_task' = csv[Len(csv)].desc
              /\ task_start_time' = csv[Len(csv)].start
      ]_vars

\* startup adopted an open row of the tasks table that began earlier, less
\* than 7200 s ago
C18_Witness ==
    /\ variant = "enhanced" /\ restarts = 1 /\ gui = IdleGui("none")
    /\ Truthy(current_task) /\ current_task_id # NoId
    /\ tasks[current_task_id].end_time = NoTime
    /\ now > task_start_time /\ now - task_start_time < AUTO_CLOSE_SECONDS
    /\ Countdowns = {1}

\* C19: in simple_desktop, enhanced_standalone, web_standalone and web_app
\* the start that closes task A and makes B current records A with an
\* end_time equal to the start_time given to B.
C19_ImplicitCloseAtStartInstantElsewhere ==
    [][ /\ \A text \in Entries(started + 1) :
            ((\/ Simple_start_new_task(text) \/ Std_start_new_task(text)
              \/ Web_start_task(1, text))
             /\ Len(csv') > Len(csv))
            => csv'[Len(csv')].end = task_start_time'
        /\ \A r \in Workers :
            /\ (WebApp_start_263(r) /\ Len(csv') > Len(csv))
               => csv'[Len(csv')].end = task_start_time'
            /\ (WebApp_start_247(r) /\ Len(tasks') > Len(tasks)
                /\ requests[r].id # NoId)
               => tasks[requests[r].id].end_time = tasks'[Len(tasks')].start
      ]_vars

\* C20: no two stored categories have names that are equal ignoring letter
\* case, in the CSV stores and in the database store.
C20_CategoryNamesUnique ==
    \A i, j \in 1 .. Len(categories) :
        lower(categories[i].name) = lower(categories[j].name) => i = j

\* the rows of the log appended by auto_close_task
AutoRows == { i \in 1 .. Len(csv) : csv[i].by = "auto" }

\* C21: in main.py and main_enhanced.py, once every operation has completed,
\* as many "Auto-Close" notifications were posted as records were written by
\* auto_close: one for each auto-close that wrote a record and none for a
\* stop, an implicit close or a Timer that closed nothing (no write failing).
C21_NotifiedIffAutoClosed ==
    (variant \in {"main", "enhanced"} /\ failures = 0 /\ Quiescent)
    => notified = Cardinality(AutoRows)

\* C22: in enhanced_standalone the category written in a task's record is
\* the one that was selected when that task was started.
C22_CategoryOfStart ==
    variant = "standalone" =>
        \A i \in 1 .. Len(csv) : csv[i].category = csv[i].start_category


\* the k-th task started has a record in the log
Recorded(k) == \E i \in 1 .. Len(csv) : csv[i].desc = <<k>>

\* C23: in main.py, however the Timer thread's auto_close_task / end_task
\* interleaves with start_new_task on the GUI thread, no task is dropped: once
\* the handlers have completed (CSV writes succeeding), every task that became
\* current is either still the current task or has its record in the log.
C23_NoTaskDropped ==
    (variant = "main" /\ failures = 0 /\ Quiescent)
    => \A k \in 1 .. started : current_task = <<k>> \/ Recorded(k)


\* thread t is inside a handler or a Timer callback
Inside(t) ==
    IF t = 0 THEN gui.pc \notin {"idle", "closed"}
             ELSE timers[t].pc \notin {"wait", "done"}

\* the operations run one at a time: at most one thread is inside a handler
OneAtATime == Cardinality({ t \in Threads : Inside(t) }) <= 1

\* src/main.py with its operations serialised: a handler or a Timer callback
\* begins only when every other one has returned
SpecMainSerial == InitMain /\ [][NextMain /\ OneAtATime']_vars

\* C24: in main.py, the operations running one at a time and every CSV write
\* succeeding, whenever no operation is in progress the log has one row per
\* successful start, less one if a task is active, and the rows are in the
\* order in which the tasks were started.
C24_RowsCountStarts ==
    (variant = "main" /\ failures = 0 /\ Quiescent)
    => /\ Len(csv) = started - (IF Truthy(current_task) THEN 1 ELSE 0)
       /\ \A i \in 1 .. Len(csv) : csv[i].desc = <<i>>

\* three tasks started, the first closed by its countdown, the second by the
\* start of the third, which is active
C24_Witness ==
    /\ variant = "main" /\ failures = 0 /\ Quiescent
    /\ started = 3 /\ Len(csv) = 2 /\ current_task = <<3>>
    /\ csv[1].by = "auto" /\ csv[2].by = "start"


\* the k-th task started has a closed row in the tasks table
Stopped(k) ==
    \E i \in 1 .. Len(tasks) : tasks[i].desc = <<k>> /\ tasks[i].end_time # NoTime

\* C25: in web_app, once the start request of the first task has returned
\* success and until that task is stopped or replaced, get_current_task (its
\* own database read succeeding) reports that task, whether the start was
\* served by the database or by the CSV fallback after a database error.
C25_StartedTaskReported ==
    (/\ variant = "webapp" /\ started = 1 /\ ~Stopped(1)
     /\ \A r \in Workers : requests[r].pc = "idle"
     /\ \E r \in Workers : requests[r].op = "start" /\ requests[r].status = 200)
    => get_current_task(FALSE) = { <<1>> }


\* the rows of the log written for the k-th task started
RecordsOf(k) == { i \in 1 .. Len(csv) : csv[i].desc = <<k>> }

\* C26: in enhanced_standalone the Timer's thread never closes a task itself
\* (its trigger only queues _auto_close_task_safe for the GUI thread), and
\* however many triggers the Timer and update_display queue for a task, the
\* task has at most one closed record and every record is that of a task.
C26_OneRecordPerAutoClose ==
    [][ /\ (\E k \in 1 .. Len(timers), queued \in BOOLEAN : Std_timer_fires(k, queued))
            => UNCHANGED <<csv, current_task, task_start_time>>
        /\ variant = "standalone" =>
            /\ \A k \in 1 .. started' : Cardinality(RecordsOf(k)') <= 1
            /\ \A i \in 1 .. Len(csv') : \E k \in 1 .. started' : i \in RecordsOf(k)'
      ]_vars

\* the first task was closed by one trigger while a second trigger, queued
\* for the same task, is still waiting in the mainloop
C26_Witness ==
    /\ variant = "standalone" /\ started = 1 /\ after_queue > 0
    /\ Len(csv) = 1 /\ csv[1].by = "auto" /\ csv[1].desc = <<1>>
    /\ ~Truthy(current_task)


\* int(self.task_start_time.timestamp()), enhanced_standalone line 544, and
\* int(start_time.timestamp()), web_standalone line 229: the instants of the
\* model are whole seconds, which the truncation leaves as they are
task_id(start_time) == start_time

\* C27: in enhanced_standalone and web_standalone no two records of distinct
\* tasks in the log carry the same ID, two tasks started within the same
\* second included.
C27_RecordIdsUnique ==
    variant \in {"standalone", "web"} =>
        \A i, j \in 1 .. Len(csv) :
            csv[i].desc # csv[j].desc => task_id(csv[i].start) # task_id(csv[j].start)


\* C28: in the database-backed variants a confirmed deletion of a stored
\* category, the database connected, removes the category from the store
\* and reports success.
C28_DeleteRemovesCategory ==
    [][ \A category_id \in CategoryIds :
          /\ (db /\ \E r \in Workers : WebApp_delete_category(r, category_id))
                => /\ category_id \notin CategoryIds'
                   /\ \E r \in Workers : /\ requests'[r].op = "delete_category"
                                         /\ requests'[r].status = 200
          /\ (db /\ Enh_delete_category(category_id, TRUE))
                => /\ category_id \notin CategoryIds'
                   /\ gui'.result = "success"
      ]_vars


\* C29: in main.py, once on_closing has returned (no Timer callback being in
\* progress, CSV writes succeeding) no task is current, no countdown is
\* outstanding and is_running is false, so that no auto-close fires after
\* the exit.
C29_ClosedCleanly ==
    (variant = "main" /\ gui.pc = "closed" /\ Quiescent /\ failures = 0)
    => /\ ~Truthy(current_task) /\ task_start_time = NoTime
       /\ Countdowns = { }
       /\ ~is_running

====
